---- MODULE Spec2Model ----
(***************************************************************************)
(* The Samsung Global Sales EDA dashboard (samsung_eda_streamlit.py) as a  *)
(* state machine.  Streamlit reruns the whole script, top to bottom, on    *)
(* every interaction (a file upload, a change of one multiselect, a change *)
(* of the page radio): each action below is one complete run of the        *)
(* script with the widget state of that interaction.                       *)
(*                                                                         *)
(* Library semantics are those of pandas 2.x:                              *)
(*   - read_csv infers float64 for a numeric column with an empty cell,    *)
(*     object for a column holding a cell that is no number, and leaves a  *)
(*     parse_dates column that cannot be parsed as object;                 *)
(*   - groupby drops the rows whose key is NaN and sorts the keys;         *)
(*   - sum skips NaN, and is 0 over no value;                              *)
(*   - sort_values(kind="quicksort") orders equal values in no specified   *)
(*     order: the order among ties is an input of the run.                 *)
(* Numbers are naturals (revenue in whole dollars); a Pearson coefficient  *)
(* is represented by the rows it is computed over.                         *)
(***************************************************************************)
EXTENDS Integers, Sequences, FiniteSets, TLC

\* The number of data rows of an uploaded file.
MaxRows == 2

(***************************************************************************)
(* Cells.  A cell of the CSV text is a number, a date, some other text, or *)
(* empty; an empty cell loads as NaN (NaT for a date).  Categorical cells  *)
(* are plain strings, the empty string being the empty cell.               *)
(***************************************************************************)
Num(n) == [t |-> "num", v |-> n]
Str(s) == [t |-> "str", s |-> s]
Date(y, m) == [t |-> "date", y |-> y, m |-> m]
NaN == [t |-> "nan"]
\* A number written with a decimal point, which makes its column float64.
Float(n) == [t |-> "float", v |-> n]
NA == ""

\* The columns whose cells are text once loaded: year is text after
\* astype(str), so an empty year is the string "nan" and no longer null.
TextColumns ==
    {"year", "quarter", "region", "country", "category", "product_name",
     "is_5g", "customer_segment", "customer_age_group", "previous_device_os",
     "sales_channel", "payment_method", "return_status"}

\* isnull of one cell of column c.
isnull(c, cell) == IF c \in TextColumns THEN cell = NA ELSE cell = NaN

Range(s) == {s[i] : i \in DOMAIN s}

RECURSIVE SeqSum(_)
SeqSum(s) == IF s = <<>> THEN 0 ELSE Head(s) + SeqSum(Tail(s))

\* The column names the script refers to, in the order of the data set's header.
Columns ==
    << "sale_date", "year", "quarter", "region", "country", "category",
       "product_name", "is_5g", "customer_segment", "customer_age_group",
       "previous_device_os", "sales_channel", "payment_method",
       "return_status", "unit_price_usd", "discount_pct",
       "discounted_price_usd", "units_sold", "revenue_usd",
       "customer_rating" >>

NumericColumns ==
    {"unit_price_usd", "discount_pct", "discounted_price_usd", "units_sold",
     "revenue_usd", "customer_rating"}

Without(c) == SelectSeq(Columns, LAMBDA x : x # c)

\* The headers an uploaded file may carry: the full schema, or one column short.
Headers ==
    {Columns, Without("quarter"), Without("sale_date"), Without("region")}

(***************************************************************************)
(* The rows an uploaded file is made of.                                   *)
(***************************************************************************)
Row1 ==
    [sale_date |-> Date(2022, 1), year |-> Num(2022), quarter |-> "Q1",
     region |-> "US", country |-> "USA", category |-> "Phone",
     product_name |-> "Galaxy A", is_5g |-> "Yes",
     customer_segment |-> "Consumer", customer_age_group |-> "25-34",
     previous_device_os |-> "Android", sales_channel |-> "Online",
     payment_method |-> "Card", return_status |-> "Kept",
     unit_price_usd |-> Num(100), discount_pct |-> Num(0),
     discounted_price_usd |-> Num(100), units_sold |-> Num(1),
     revenue_usd |-> Num(100), customer_rating |-> Num(4)]

\* No sale date, no year, no revenue, no rating.
Row2 ==
    [Row1 EXCEPT !.sale_date = NaN, !.year = NaN, !.quarter = "Q2",
                 !.region = "EU", !.country = "Germany", !.category = "TV",
                 !.product_name = "Neo QLED", !.is_5g = "No",
                 !.sales_channel = "Retail", !.revenue_usd = NaN,
                 !.customer_rating = NaN]

\* The year and quarter columns disagree with the sale date (May 2023); no
\* country, no sales channel, no units sold; the revenue of Row1, for a
\* product that sorts after Row1's.
Row3 ==
    [Row1 EXCEPT !.sale_date = Date(2023, 5), !.category = "TV",
                 !.country = NA, !.sales_channel = NA,
                 !.product_name = "Neo QLED", !.units_sold = NaN,
                 !.customer_rating = Num(5)]

\* A rating that is no number; no product name, no 5G flag.
Row4 ==
    [Row1 EXCEPT !.sale_date = Date(2023, 12), !.year = Num(2023),
                 !.quarter = "Q4", !.product_name = NA, !.is_5g = NA,
                 !.revenue_usd = Num(200), !.customer_rating = Str("n/a")]

\* A sale date that is no date.
Row5 == [Row1 EXCEPT !.sale_date = Str("soon")]

\* No region.
Row6 == [Row1 EXCEPT !.region = NA]

Pool == {Row1, Row2, Row3, Row4, Row5, Row6}

RowSeqs == UNION {[1..n -> Pool] : n \in 0..MaxRows}

\* A CSV file: its header, and its rows holding the header's columns.
Restrict(r, header) == [c \in Range(header) |-> r[c]]

\* The files a user may upload.  What a file short of a column shows is in
\* its header: it comes with one row at most.
CsvFile(h, rs) ==
    [header |-> h, rows |-> [i \in DOMAIN rs |-> Restrict(rs[i], h)]]

Files ==
    {CsvFile(Columns, rs) : rs \in RowSeqs}
        \cup {CsvFile(h, rs) : h \in Headers, rs \in {x \in RowSeqs : Len(x) <= 1}}

NoFile == [header |-> <<>>, rows |-> <<>>]

(***************************************************************************)
(* Strings in Python's order (by code point), for sorted() and for the     *)
(* sorted keys of groupby.                                                 *)
(***************************************************************************)
StringOrder ==
    << "2022", "2022.0", "2023", "2023.0", "Card", "Consumer", "EU",
       "Galaxy A", "Germany", "Neo QLED", "No", "Online", "Phone", "Q1",
       "Q2", "Q4", "Retail", "TV", "US", "USA", "Yes", "nan" >>

Rank(s) == CHOOSE i \in DOMAIN StringOrder : StringOrder[i] = s

\* The strings of a set, sorted.
RECURSIVE Sorted(_)
Sorted(S) ==
    IF S = {} THEN <<>>
    ELSE LET m == CHOOSE x \in S : \A y \in S : Rank(x) <= Rank(y)
         IN  <<m>> \o Sorted(S \ {m})

(***************************************************************************)
(* Loading: lines 56-58 of the sidebar's upload branch.                    *)
(***************************************************************************)
ColumnCells(file, c) == {file.rows[i][c] : i \in DOMAIN file.rows}

\* pd.read_csv(uploaded, parse_dates=["sale_date"]) raises when the header
\* lacks the column named in parse_dates.
read_csv_error(file) ==
    IF "sale_date" \notin Range(file.header) THEN "ValueError" ELSE ""

\* pd.to_datetime(df_raw["sale_date"]) raises on a cell that is no date.
to_datetime_error(file) ==
    IF \E c \in ColumnCells(file, "sale_date") : c.t = "str"
    THEN "ValueError" ELSE ""

\* The year of the sale date taken for its month.
month_num_Year(date) == IF date = NaN THEN NaN ELSE Num(date.y)

\* .dt.month of one sale date; NaT gives NaN.
month_num(date) == IF date = NaN THEN NaN ELSE Num(date.m)

\* df_raw["year"] raises when the header lacks the column.
year_error(file) ==
    IF "year" \notin Range(file.header) THEN "KeyError" ELSE ""

\* .astype(str) of one cell of the year column: the column is int64 when
\* every cell is a whole number, float64 when some cell is empty or is
\* written with a decimal point.
astype_str(cell, column) ==
    IF cell = NaN THEN "nan"
    ELSE IF \E x \in column : x = NaN \/ x.t = "float"
         THEN ToString(cell.v) \o ".0"
         ELSE ToString(cell.v)

LoadError(file) ==
    IF read_csv_error(file) # "" THEN read_csv_error(file)
    ELSE IF to_datetime_error(file) # "" THEN to_datetime_error(file)
    ELSE year_error(file)

df_raw_columns(file) ==
    IF "month_num" \in Range(file.header) THEN file.header
    ELSE Append(file.header, "month_num")

LoadedRow(file, i) ==
    LET r == file.rows[i]
    IN  [c \in Range(df_raw_columns(file)) |->
            IF c = "month_num" THEN month_num(r["sale_date"])
            ELSE IF c = "year"
                 THEN astype_str(r["year"], ColumnCells(file, "year"))
                 ELSE r[c]]

\* df_raw after lines 56-58.
Load(file) ==
    [columns |-> df_raw_columns(file),
     rows |-> [i \in DOMAIN file.rows |-> LoadedRow(file, i)]]

NoFrame == [columns |-> <<>>, rows |-> <<>>]

\* The numeric columns read_csv left as object: some cell is no number.
ObjectColumns(frame) ==
    {c \in NumericColumns \cap Range(frame.columns) :
        \E i \in DOMAIN frame.rows : frame.rows[i][c].t = "str"}

(***************************************************************************)
(* The sidebar's filter widgets: lines 63-69.                              *)
(***************************************************************************)
\* df_raw[c].unique()
unique(frame, c) == {frame.rows[i][c] : i \in DOMAIN frame.rows}

\* sorted(df_raw[c].unique()): comparing NaN (a float) with a string raises.
SidebarError(frame) ==
    IF \E c \in {"region", "category"} : c \notin Range(frame.columns)
    THEN "KeyError"
    ELSE IF \E c \in {"region", "category"} :
                NA \in unique(frame, c) /\ Cardinality(unique(frame, c)) > 1
         THEN "TypeError"
         ELSE ""

\* The options of the three multiselects, which are also their defaults.
Options(frame) ==
    [years |-> unique(frame, "year"),
     regions |-> unique(frame, "region"),
     categories |-> unique(frame, "category")]

NoSelection == [years |-> {}, regions |-> {}, categories |-> {}]

(***************************************************************************)
(* Apply Filters: lines 83-87.  The filtered frame is given by the index   *)
(* labels (the positions in df_raw) of its rows, in order.                 *)
(***************************************************************************)
\* A membership test that takes an empty list for "all".
isin_EmptyIsAll(value, values) == values = {} \/ value \in values

isin(value, values) == value \in values

\* A mask that keeps the years that were not selected.
FilterMask_YearNegated(frame, selection) ==
    [i \in DOMAIN frame.rows |->
        /\ ~isin(frame.rows[i]["year"], selection.years)
        /\ isin(frame.rows[i]["region"], selection.regions)
        /\ isin(frame.rows[i]["category"], selection.categories)]

FilterMask(frame, selection) ==
    [i \in DOMAIN frame.rows |->
        /\ isin(frame.rows[i]["year"], selection.years)
        /\ isin(frame.rows[i]["region"], selection.regions)
        /\ isin(frame.rows[i]["category"], selection.categories)]

ApplyFilters(frame, selection) ==
    LET mask == FilterMask(frame, selection)
    IN  SelectSeq([i \in DOMAIN frame.rows |-> i], LAMBDA i : mask[i])

\* An empty check that never stops the run.
empty_Never(idx) == FALSE

\* df.empty (line 89)
empty(idx) == idx = <<>>

(***************************************************************************)
(* Aggregation over the filtered frame: frame is df_raw, idx the index     *)
(* labels of df.                                                           *)
(***************************************************************************)
\* df[c], as a sequence of cells.
Column(frame, idx, c) == [j \in DOMAIN idx |-> frame.rows[idx[j]][c]]

\* Series.sum(): NaN is skipped, and the sum of no value is 0.
sum(cells) ==
    LET xs == SelectSeq(cells, LAMBDA x : x # NaN)
    IN  SeqSum([j \in DOMAIN xs |-> xs[j].v])

\* A mean that is zero over no value.
mean_ZeroOverNone(cells) ==
    LET xs == SelectSeq(cells, LAMBDA x : x # NaN)
    IN  [t |-> "mean", sum |-> sum(xs), n |-> IF xs = <<>> THEN 1 ELSE Len(xs)]

\* Series.mean(): NaN is skipped, and the mean of no value is NaN.
mean(cells) ==
    LET xs == SelectSeq(cells, LAMBDA x : x # NaN)
    IN  IF xs = <<>> THEN NaN
        ELSE [t |-> "mean", sum |-> sum(xs), n |-> Len(xs)]

\* The order of group keys: strings by code point, month numbers by value.
KeyRank(c, x) == IF c = "month_num" THEN x.v ELSE Rank(x)

\* The items of a set of <<rank, item>> pairs, by increasing rank.
RECURSIVE SortedBy(_)
SortedBy(S) ==
    IF S = {} THEN <<>>
    ELSE LET m == CHOOSE x \in S : \A y \in S : x[1] <= y[1]
         IN  <<m[2]>> \o SortedBy(S \ {m})

\* The group keys of df.groupby(ks): the key tuples of the rows none of
\* whose keys is null (dropna=True), sorted (sort=True).
GroupKeys(frame, idx, ks) ==
    LET rows == {i \in Range(idx) :
                    \A n \in DOMAIN ks : ~isnull(ks[n], frame.rows[i][ks[n]])}
        keys == {[n \in DOMAIN ks |-> frame.rows[i][ks[n]]] : i \in rows}
        rk(k) == IF Len(ks) = 1 THEN KeyRank(ks[1], k[1])
                 ELSE 100 * KeyRank(ks[1], k[1]) + KeyRank(ks[2], k[2])
    IN  SortedBy({<<rk(k), k>> : k \in keys})

\* The rows of one group, in the frame's order.
GroupRows(frame, idx, ks, key) ==
    SelectSeq(idx, LAMBDA i : \A n \in DOMAIN ks : frame.rows[i][ks[n]] = key[n])

\* df.groupby(ks)[v].sum().reset_index()
groupby_sum(frame, idx, ks, v) ==
    LET keys == GroupKeys(frame, idx, ks)
    IN  [g \in DOMAIN keys |->
            [key |-> keys[g],
             value |-> sum(Column(frame, GroupRows(frame, idx, ks, keys[g]), v))]]

\* df.groupby(ks)[v].mean()
groupby_mean(frame, idx, ks, v) ==
    LET keys == GroupKeys(frame, idx, ks)
    IN  [g \in DOMAIN keys |->
            [key |-> keys[g],
             value |-> mean(Column(frame, GroupRows(frame, idx, ks, keys[g]), v))]]

\* grouped.pivot(index, columns, values) of a two-key groupby: one row per
\* first key, one column per second key, NaN where the pair has no group.
pivot(groups) ==
    LET index == Sorted({groups[g].key[1] : g \in DOMAIN groups})
        columns == Sorted({groups[g].key[2] : g \in DOMAIN groups})
    IN  [index |-> index,
         columns |-> columns,
         cell |-> [rc \in Range(index) \X Range(columns) |->
                    IF \E g \in DOMAIN groups : groups[g].key = rc
                    THEN Num(groups[CHOOSE g \in DOMAIN groups :
                                        groups[g].key = rc].value)
                    ELSE NaN]]

\* DataFrame.fillna(0)
fillna0(pv) ==
    [pv EXCEPT !.cell = [rc \in DOMAIN pv.cell |->
                            IF pv.cell[rc] = NaN THEN Num(0) ELSE pv.cell[rc]]]

\* The product of the counts the means of the groups are taken over.
RECURSIVE Denominator(_)
Denominator(groups) ==
    IF groups = <<>> THEN 1
    ELSE (IF Head(groups).value = NaN THEN 1 ELSE Head(groups).value.n)
         * Denominator(Tail(groups))

\* A sort in the direction opposite to the one asked for.
sort_values_Reversed(groups, ascending, means, tie) ==
    LET valid == IF means THEN {g \in DOMAIN groups : groups[g].value # NaN}
                 ELSE DOMAIN groups
        scaled(g) == IF means
                     THEN (groups[g].value.sum * Denominator(groups))
                            \div groups[g].value.n
                     ELSE groups[g].value
        rk(g) == (IF ascending THEN 0 - scaled(g) ELSE scaled(g))
                    * (Len(groups) + 1) + tie[g]
        order == SortedBy({<<rk(g), g>> : g \in valid})
                 \o SortedBy({<<tie[g], g>> : g \in DOMAIN groups \ valid})
    IN  [j \in DOMAIN order |-> groups[order[j]]]

\* Series.sort_values(ascending) of grouped aggregates (means says whether
\* they are means, which are compared on their common denominator).  NaN
\* comes last in either direction.  The default kind is quicksort, which is
\* not stable: equal values come in the order of tie, a priority over the
\* positions of the groups.
sort_values(groups, ascending, means, tie) ==
    LET valid == IF means THEN {g \in DOMAIN groups : groups[g].value # NaN}
                 ELSE DOMAIN groups
        scaled(g) == IF means
                     THEN (groups[g].value.sum * Denominator(groups))
                            \div groups[g].value.n
                     ELSE groups[g].value
        rk(g) == (IF ascending THEN scaled(g) ELSE 0 - scaled(g))
                    * (Len(groups) + 1) + tie[g]
        order == SortedBy({<<rk(g), g>> : g \in valid})
                 \o SortedBy({<<tie[g], g>> : g \in DOMAIN groups \ valid})
    IN  [j \in DOMAIN order |-> groups[order[j]]]

\* The non-null values of df[c], in the order of their first appearance.
RECURSIVE FirstAppearance(_, _, _)
FirstAppearance(frame, idx, c) ==
    IF idx = <<>> THEN <<>>
    ELSE LET x == frame.rows[idx[Len(idx)]][c]
             before == FirstAppearance(frame, SubSeq(idx, 1, Len(idx) - 1), c)
         IN  IF isnull(c, x) \/ x \in Range(before) THEN before
             ELSE Append(before, x)

\* df[c].value_counts(): the count of each non-null value, by decreasing
\* count (a sort_values of the counts, kept in first-appearance order).
value_counts(frame, idx, c, tie) ==
    LET keys == FirstAppearance(frame, idx, c)
        counts == [g \in DOMAIN keys |->
                    [key |-> <<keys[g]>>,
                     value |-> Len(GroupRows(frame, idx, <<c>>, <<keys[g]>>))]]
    IN  sort_values(counts, FALSE, FALSE, tie)

\* .head(n)
head(s, n) == SubSeq(s, 1, IF n < Len(s) THEN n ELSE Len(s))

\* A dropna(how="all"): only the rows with nothing but NaN are dropped.
dropna_All(frame, idx, cols) ==
    SelectSeq(idx, LAMBDA i : \E c \in cols : frame.rows[i][c] # NaN)

\* DataFrame.dropna(): the rows with no NaN in any of the columns.
dropna(frame, idx, cols) ==
    SelectSeq(idx, LAMBDA i : \A c \in cols : frame.rows[i][c] # NaN)

\* DataFrame.corr(): each coefficient is computed over the rows in which
\* both columns are present; it is represented by those rows.
corr(frame, idx, cols) ==
    [p \in cols \X cols |->
        SelectSeq(idx, LAMBDA i : /\ frame.rows[i][p[1]] # NaN
                                  /\ frame.rows[i][p[2]] # NaN)]

(***************************************************************************)
(* Pages and their views, in the order the script renders them.            *)
(***************************************************************************)
Pages ==
    << "Overview", "Product Analysis", "Regional Analysis",
       "Customer Analysis", "Sales Channels", "Data Quality" >>

PageViews(pg) ==
    CASE pg = "Overview" ->
            << "title", "kpi_total_revenue", "kpi_transactions",
               "kpi_avg_order_value", "kpi_return_rate", "kpi_avg_rating",
               "kpi_avg_discount", "rev_by_year", "rev_by_quarter",
               "monthly_trend", "heat_year_quarter", "describe" >>
      [] pg = "Product Analysis" ->
            << "rev_by_category", "count_by_category", "top_products",
               "rev_by_5g", "avg_rating_by_category", "discount_box",
               "price_scatter" >>
      [] pg = "Regional Analysis" ->
            << "rev_by_region", "region_share", "top_countries",
               "heat_region_category", "region_trend" >>
      [] pg = "Customer Analysis" ->
            << "segments", "age_groups", "rev_segment_year",
               "return_status", "rating_hist", "prev_os",
               "rating_age_category" >>
      [] pg = "Sales Channels" ->
            << "rev_by_channel", "payment_dist", "heat_channel_category",
               "channel_trend", "aov_by_channel", "payment_segment" >>
      [] pg = "Data Quality" ->
            << "missing", "corr", "outlier_box", "outlier_hist", "raw_data",
               "download" >>

TopProducts == 15
TopCountries == 20
RawDataRows == 500

DescribeColumns ==
    {"unit_price_usd", "discount_pct", "units_sold", "revenue_usd",
     "customer_rating"}

\* The columns a view reads.
Needs(view) ==
    CASE view \in {"title", "kpi_transactions", "count_by_category",
                   "missing", "raw_data", "download"} -> {}
      [] view \in {"kpi_total_revenue", "kpi_avg_order_value", "rev_by_year",
                   "rev_by_category", "rev_by_region", "region_share",
                   "heat_region_category", "region_trend", "outlier_box",
                   "outlier_hist"} -> {"revenue_usd"}
      [] view = "kpi_return_rate" -> {"return_status"}
      [] view = "kpi_avg_rating" -> {"customer_rating"}
      [] view = "kpi_avg_discount" -> {"discount_pct"}
      [] view \in {"rev_by_quarter", "heat_year_quarter"} ->
            {"quarter", "revenue_usd"}
      [] view = "monthly_trend" -> {"month_num", "revenue_usd"}
      [] view = "describe" -> DescribeColumns
      [] view = "top_products" -> {"product_name", "revenue_usd"}
      [] view = "rev_by_5g" -> {"is_5g", "revenue_usd"}
      [] view \in {"avg_rating_by_category", "rating_hist"} ->
            {"customer_rating"}
      [] view = "discount_box" -> {"discount_pct"}
      [] view = "price_scatter" ->
            {"unit_price_usd", "revenue_usd", "units_sold", "product_name"}
      [] view = "top_countries" -> {"country", "revenue_usd"}
      [] view = "segments" -> {"customer_segment"}
      [] view = "age_groups" -> {"customer_age_group"}
      [] view = "rev_segment_year" -> {"customer_segment", "revenue_usd"}
      [] view = "return_status" -> {"return_status"}
      [] view = "prev_os" -> {"previous_device_os"}
      [] view = "rating_age_category" ->
            {"customer_rating", "customer_age_group"}
      [] view \in {"rev_by_channel", "heat_channel_category",
                   "channel_trend", "aov_by_channel"} ->
            {"sales_channel", "revenue_usd"}
      [] view = "payment_dist" -> {"payment_method"}
      [] view = "payment_segment" ->
            {"payment_method", "customer_segment", "revenue_usd"}
      [] view = "corr" -> NumericColumns

\* The exception a view's code raises on this frame, "" when it raises none:
\* a KeyError on a column the frame lacks; on an object-dtype rating, a
\* TypeError from mean() and a ValueError from corr().
ViewError(view, frame) ==
    IF ~(Needs(view) \subseteq Range(frame.columns)) THEN "KeyError"
    ELSE IF "customer_rating" \in ObjectColumns(frame)
         THEN CASE view \in {"kpi_avg_rating", "avg_rating_by_category"} ->
                        "TypeError"
                [] view = "corr" -> "ValueError"
                [] OTHER -> ""
         ELSE ""

\* round(a / b) to the nearest integer, halves to the even one.
RoundDiv(a, b) ==
    LET q == a \div b
        r == a % b
    IN  IF 2 * r < b THEN q
        ELSE IF 2 * r > b THEN q + 1
        ELSE IF q % 2 = 0 THEN q ELSE q + 1

\* A report with pct taken of the rows of df_raw.
MissingReport_OfAllRows(frame, idx) ==
    LET missing(c) == Len(SelectSeq(idx, LAMBDA i : isnull(c, frame.rows[i][c])))
        cols == {c \in Range(frame.columns) : missing(c) > 0}
    IN  [c \in cols |->
            [missing |-> missing(c),
             pct |-> RoundDiv(missing(c) * 10000, Len(frame.rows))]]

\* df.isnull().sum() with pct = (missing / len(df) * 100).round(2), kept for
\* the columns with a missing value; pct is in hundredths of a percent.
\* The rows come by decreasing missing count.
MissingReport(frame, idx) ==
    LET missing(c) == Len(SelectSeq(idx, LAMBDA i : isnull(c, frame.rows[i][c])))
        cols == {c \in Range(frame.columns) : missing(c) > 0}
    IN  [c \in cols |->
            [missing |-> missing(c),
             pct |-> RoundDiv(missing(c) * 10000, Len(idx))]]

\* The Missing Values section (lines 454-468): the success message when no
\* column has a missing value, the chart and table of the report otherwise.
MissingValues(frame, idx) ==
    LET miss == MissingReport(frame, idx)
    IN  IF DOMAIN miss = {} THEN [success |-> TRUE, miss |-> miss]
        ELSE [success |-> FALSE, miss |-> miss]

Pad2(n) == IF n < 10 THEN "0" \o ToString(n) ELSE ToString(n)

\* The text to_csv writes for one cell of column c: nothing for a null, a
\* number of a float64 column (one with a NaN in df_raw) with its ".0".
CsvCell(frame, c, cell) ==
    IF c \in TextColumns THEN cell
    ELSE IF cell = NaN THEN ""
    ELSE IF cell.t = "str" THEN cell.s
    ELSE IF cell.t = "date" THEN ToString(cell.y) \o "-" \o Pad2(cell.m)
    ELSE IF NaN \in unique(frame, c) THEN ToString(cell.v) \o ".0"
    ELSE ToString(cell.v)

\* A to_csv that also writes the index, as an unnamed first column.
to_csv_WithIndex(frame, idx) ==
    [header |-> <<"">> \o frame.columns,
     lines |-> [j \in DOMAIN idx |->
                 <<ToString(idx[j] - 1)>> \o
                 [n \in DOMAIN frame.columns |->
                    CsvCell(frame, frame.columns[n],
                            frame.rows[idx[j]][frame.columns[n]])]]]

\* df.to_csv(index=False): the header line and one line per row.
to_csv(frame, idx) ==
    [header |-> frame.columns,
     lines |-> [j \in DOMAIN idx |->
                 [n \in DOMAIN frame.columns |->
                    CsvCell(frame, frame.columns[n],
                            frame.rows[idx[j]][frame.columns[n]])]]]

\* The numbers and the dates whose text a CSV of these rows may hold.
Numerals == (0..12) \cup {100, 200, 2022, 2023}

Dates == {Date(y, m) : y \in {2022, 2023}, m \in 1..12}

\* pd.read_csv of one cell of column c: an empty cell and "nan" are NaN; the
\* text of a date in the parse_dates column is that date; the text of a
\* number is that number (a float for the year when written with a decimal
\* point: the only column whose text is taken later); other text is kept.
ParseCell(c, text) ==
    IF c = "sale_date"
    THEN IF text = "" THEN NaN
         ELSE IF \E d \in Dates : ToString(d.y) \o "-" \o Pad2(d.m) = text
              THEN CHOOSE d \in Dates : ToString(d.y) \o "-" \o Pad2(d.m) = text
              ELSE Str(text)
    ELSE IF c \in NumericColumns \cup {"year", "month_num"}
    THEN IF text \in {"", "nan"} THEN NaN
         ELSE IF \E n \in Numerals : ToString(n) = text
              THEN Num(CHOOSE n \in Numerals : ToString(n) = text)
         ELSE IF \E n \in Numerals : ToString(n) \o ".0" = text
              THEN LET v == CHOOSE n \in Numerals : ToString(n) \o ".0" = text
                   IN  IF c = "year" THEN Float(v) ELSE Num(v)
         ELSE Str(text)
    ELSE text

\* pd.read_csv of the text to_csv wrote: a file with its header and rows.
ParseCsv(csv) ==
    [header |-> csv.header,
     rows |-> [j \in DOMAIN csv.lines |->
                [c \in Range(csv.header) |->
                    ParseCell(c, csv.lines[j][CHOOSE n \in DOMAIN csv.header :
                                                csv.header[n] = c])]]]

\* The x label of the monthly trend: year + "-" + str(month_num).zfill(2).
Period(frame, key) ==
    key[1] \o "-" \o
        (IF NaN \in unique(frame, "month_num")
         THEN ToString(key[2].v) \o ".0" ELSE Pad2(key[2].v))

\* What a view shows of the filtered frame.  A chart of the rows themselves
\* is given by the rows it plots.
Value(view, frame, idx, tie) ==
    CASE view = "title" ->
            [transactions |-> Len(idx),
             years |-> Cardinality(Range(Column(frame, idx, "year"))),
             regions |-> Cardinality(Range(Column(frame, idx, "region")) \ {NA}),
             categories |->
                Cardinality(Range(Column(frame, idx, "category")) \ {NA})]
      [] view = "kpi_total_revenue" -> sum(Column(frame, idx, "revenue_usd"))
      [] view = "kpi_transactions" -> Len(idx)
      [] view = "kpi_avg_order_value" -> mean(Column(frame, idx, "revenue_usd"))
      [] view = "kpi_return_rate" ->
            [returned |-> Len(SelectSeq(idx, LAMBDA i :
                            frame.rows[i]["return_status"] = "Returned")),
             n |-> Len(idx)]
      [] view = "kpi_avg_rating" -> mean(Column(frame, idx, "customer_rating"))
      [] view = "kpi_avg_discount" -> mean(Column(frame, idx, "discount_pct"))
      [] view = "rev_by_year" -> groupby_sum(frame, idx, <<"year">>, "revenue_usd")
      [] view = "rev_by_quarter" ->
            groupby_sum(frame, idx, <<"quarter">>, "revenue_usd")
      [] view = "monthly_trend" ->
            LET monthly == groupby_sum(frame, idx, <<"year", "month_num">>,
                                       "revenue_usd")
            IN  [g \in DOMAIN monthly |->
                    [key |-> monthly[g].key, value |-> monthly[g].value,
                     period |-> Period(frame, monthly[g].key)]]
      [] view = "heat_year_quarter" ->
            pivot(groupby_sum(frame, idx, <<"year", "quarter">>, "revenue_usd"))
      [] view = "describe" ->
            [c \in DescribeColumns |->
                Len(SelectSeq(Column(frame, idx, c), LAMBDA x : x # NaN))]
      [] view = "rev_by_category" ->
            sort_values(groupby_sum(frame, idx, <<"category">>, "revenue_usd"),
                        TRUE, FALSE, tie)
      [] view = "count_by_category" -> value_counts(frame, idx, "category", tie)
      [] view = "top_products" ->
            head(sort_values(groupby_sum(frame, idx, <<"product_name">>,
                                         "revenue_usd"), FALSE, FALSE, tie),
                 TopProducts)
      [] view = "rev_by_5g" -> groupby_sum(frame, idx, <<"is_5g">>, "revenue_usd")
      [] view = "avg_rating_by_category" ->
            sort_values(groupby_mean(frame, idx, <<"category">>,
                                     "customer_rating"), TRUE, TRUE, tie)
      [] view \in {"discount_box", "price_scatter", "outlier_box",
                   "outlier_hist"} -> idx
      [] view \in {"rev_by_region", "region_share"} ->
            sort_values(groupby_sum(frame, idx, <<"region">>, "revenue_usd"),
                        TRUE, FALSE, tie)
      [] view = "top_countries" ->
            head(sort_values(groupby_sum(frame, idx, <<"country">>,
                                         "revenue_usd"), FALSE, FALSE, tie),
                 TopCountries)
      [] view = "heat_region_category" ->
            fillna0(pivot(groupby_sum(frame, idx, <<"region", "category">>,
                                      "revenue_usd")))
      [] view = "region_trend" ->
            groupby_sum(frame, idx, <<"region", "year">>, "revenue_usd")
      [] view = "segments" -> value_counts(frame, idx, "customer_segment", tie)
      [] view = "age_groups" ->
            value_counts(frame, idx, "customer_age_group", tie)
      [] view = "rev_segment_year" ->
            groupby_sum(frame, idx, <<"customer_segment", "year">>, "revenue_usd")
      [] view = "return_status" -> value_counts(frame, idx, "return_status", tie)
      [] view \in {"rating_hist", "rating_age_category"} ->
            dropna(frame, idx, {"customer_rating"})
      [] view = "prev_os" -> value_counts(frame, idx, "previous_device_os", tie)
      [] view = "rev_by_channel" ->
            sort_values(groupby_sum(frame, idx, <<"sales_channel">>,
                                    "revenue_usd"), TRUE, FALSE, tie)
      [] view = "payment_dist" -> value_counts(frame, idx, "payment_method", tie)
      [] view = "heat_channel_category" ->
            groupby_sum(frame, idx, <<"sales_channel", "category">>,
                        "revenue_usd")
      [] view = "channel_trend" ->
            groupby_sum(frame, idx, <<"sales_channel", "year">>, "revenue_usd")
      [] view = "aov_by_channel" ->
            sort_values(groupby_mean(frame, idx, <<"sales_channel">>,
                                     "revenue_usd"), TRUE, TRUE, tie)
      [] view = "payment_segment" ->
            groupby_sum(frame, idx, <<"payment_method", "customer_segment">>,
                        "revenue_usd")
      [] view = "missing" -> MissingValues(frame, idx)
      [] view = "corr" ->
            corr(frame, dropna(frame, idx, NumericColumns), NumericColumns)
      [] view = "raw_data" -> head(idx, RawDataRows)
      [] view = "download" -> to_csv(frame, idx)

\* The page's code, top to bottom: an exception ends the run, and the views
\* before it stay on the page.
Render(pg, frame, idx, tie) ==
    LET views == PageViews(pg)
        bad == {n \in DOMAIN views : ViewError(views[n], frame) # ""}
        stop == IF bad = {} THEN Len(views) + 1
                ELSE CHOOSE n \in bad : \A m \in bad : n <= m
    IN  [shown |-> [n \in 1..(stop - 1) |->
                     [view |-> views[n],
                      value |-> Value(views[n], frame, idx, tie)]],
         error |-> IF bad = {} THEN "" ELSE ViewError(views[stop], frame)]

(***************************************************************************)
(* One run of the script: what it leaves on the screen and in the widgets. *)
(* fresh says that the filter widgets hold no selection yet (they were not *)
(* on the previous screen), so each takes its default, every option.       *)
(***************************************************************************)
Stopped(st, err, frame, selection, pg) ==
    [status |-> st, error |-> err, df_raw |-> frame, sel |-> selection,
     page |-> pg, df |-> <<>>, shown |-> <<>>]

\* Lines 50-91: the upload, the load, the sidebar's widgets, the filter and
\* the check for an empty result.  status is "filtered" when the run goes on
\* to the page.
Sidebar(file, selection, pg, fresh) ==
    IF file = NoFile
    THEN Stopped("awaiting_upload", "", NoFrame, NoSelection, Pages[1])
    ELSE IF LoadError(file) # ""
    THEN Stopped("load_error", LoadError(file), NoFrame, NoSelection, Pages[1])
    ELSE LET frame == Load(file) IN
         IF SidebarError(frame) # ""
         THEN Stopped("sidebar_error", SidebarError(frame), frame, NoSelection,
                      Pages[1])
         ELSE LET chosen == IF fresh THEN Options(frame) ELSE selection
                  idx == ApplyFilters(frame, chosen)
              IN  IF empty(idx)
                  THEN Stopped("no_data", "", frame, chosen, pg)
                  ELSE [Stopped("filtered", "", frame, chosen, pg)
                            EXCEPT !.df = idx]

\* Lines 96-506: the selected page.
Page(side, tie) ==
    IF side.status # "filtered" THEN side
    ELSE LET p == Render(side.page, side.df_raw, side.df, tie)
         IN  [side EXCEPT !.status = IF p.error = "" THEN "rendered"
                                     ELSE "view_error",
                          !.error = p.error,
                          !.shown = p.shown]

Run(file, selection, pg, fresh, tie) ==
    Page(Sidebar(file, selection, pg, fresh), tie)

\* The pages with a sort_values or a value_counts.
RankedPages ==
    {"Product Analysis", "Regional Analysis", "Customer Analysis",
     "Sales Channels"}

\* The orders among ties a run may meet when it renders page pg from a
\* filtered frame of n rows, which has n groups at most.
Priorities ==
    [n \in 0..MaxRows |->
        {f \in [1..n -> 1..n] : \A i, j \in 1..n : f[i] = f[j] => i = j}]

TieChoices(pg, n) ==
    IF pg \in RankedPages THEN Priorities[n] ELSE {[i \in 1..n |-> i]}

VARIABLES
    uploaded,   \* the file in the uploader, NoFile when it holds none
    df_raw,     \* the loaded frame
    sel,        \* the selections of the Year, Region and Category multiselects
    page,       \* the selection of the Section radio
    df,         \* the filtered frame: the index labels of its rows
    status,     \* how the run ended
    error,      \* the exception that ended it, "" when none did
    shown       \* the views on the page, in order

vars == <<uploaded, df_raw, sel, page, df, status, error, shown>>

Screen(r) ==
    /\ df_raw' = r.df_raw
    /\ sel' = r.sel
    /\ page' = r.page
    /\ df' = r.df
    /\ status' = r.status
    /\ error' = r.error
    /\ shown' = r.shown

\* Before any upload: st.info and st.stop (lines 59-61).
Init ==
    /\ uploaded = NoFile
    /\ df_raw = NoFrame
    /\ sel = NoSelection
    /\ page = Pages[1]
    /\ df = <<>>
    /\ status = "awaiting_upload"
    /\ error = ""
    /\ shown = <<>>

\* One interaction: the script runs with the widgets' new state.
Rerun(file, selection, pg, fresh) ==
    LET side == Sidebar(file, selection, pg, fresh)
    IN  \E tie \in TieChoices(pg, Len(side.df)) : Screen(Page(side, tie))

\* The user puts a file in the empty uploader.
Upload ==
    /\ uploaded = NoFile
    /\ \E file \in Files :
          /\ uploaded' = file
          /\ Rerun(file, NoSelection, Pages[1], TRUE)

\* The user removes the file from the uploader.
RemoveFile ==
    /\ uploaded # NoFile
    /\ uploaded' = NoFile
    /\ Rerun(NoFile, NoSelection, Pages[1], TRUE)

\* The sidebar's widgets are on the screen once lines 63-80 have run.
SidebarShown == status \in {"no_data", "rendered", "view_error"}

Toggle(S, x) == IF x \in S THEN S \ {x} ELSE S \cup {x}

\* The user adds a year to, or removes one from, the Year multiselect.
ToggleYear ==
    /\ SidebarShown
    /\ \E y \in Options(df_raw).years :
          Rerun(uploaded, [sel EXCEPT !.years = Toggle(@, y)], page, FALSE)
    /\ UNCHANGED uploaded

ToggleRegion ==
    /\ SidebarShown
    /\ \E r \in Options(df_raw).regions :
          Rerun(uploaded, [sel EXCEPT !.regions = Toggle(@, r)], page, FALSE)
    /\ UNCHANGED uploaded

ToggleCategory ==
    /\ SidebarShown
    /\ \E c \in Options(df_raw).categories :
          Rerun(uploaded, [sel EXCEPT !.categories = Toggle(@, c)], page, FALSE)
    /\ UNCHANGED uploaded

\* The user picks another section.
SelectPage ==
    /\ SidebarShown
    /\ \E pg \in Range(Pages) \ {page} : Rerun(uploaded, sel, pg, FALSE)
    /\ UNCHANGED uploaded

Next ==
    \/ Upload
    \/ RemoveFile
    \/ ToggleYear
    \/ ToggleRegion
    \/ ToggleCategory
    \/ SelectPage

Spec == Init /\ [][Next]_vars

(***************************************************************************)
(* Properties.                                                             *)
(***************************************************************************)
\* The file is loaded and the filter has run.
Filtered == status \in {"no_data", "rendered", "view_error"}

\* Row i of df_raw passes the three allow-lists.
Matches(i) ==
    /\ df_raw.rows[i]["year"] \in sel.years
    /\ df_raw.rows[i]["region"] \in sel.regions
    /\ df_raw.rows[i]["category"] \in sel.categories

IsShown(view) == \E n \in DOMAIN shown : shown[n].view = view

ShownValue(view) ==
    shown[CHOOSE n \in DOMAIN shown : shown[n].view = view].value

\* C1: the filtered set is exactly the rows of the loaded data, in their
\* original order, whose year, region and category are each in the
\* corresponding allow-list; an empty allow-list on any dimension gives an
\* empty filtered set.
C1_FilterIsIntersection ==
    Filtered =>
        /\ \A j, k \in DOMAIN df : j < k => df[j] < df[k]
        /\ Range(df) = {i \in DOMAIN df_raw.rows : Matches(i)}
        /\ (sel.years = {} \/ sel.regions = {} \/ sel.categories = {})
                => df = <<>>

\* C1's case: the user has changed the year allow-list and the filter keeps
\* the last row of the data and drops the rows before it.
C1_Witness ==
    /\ status = "rendered"
    /\ Len(df_raw.rows) = MaxRows
    /\ df = <<MaxRows>>
    /\ sel.years # Options(df_raw).years

Within(a, b) ==
    /\ a.years \subseteq b.years
    /\ a.regions \subseteq b.regions
    /\ a.categories \subseteq b.categories

\* C6: widening an allow-list of the same data can only add or keep rows,
\* narrowing one can only remove or keep rows; so the row count follows
\* the allow-lists.
C6_FilterMonotone ==
    [][(Filtered /\ Filtered' /\ df_raw' = df_raw) =>
          /\ Within(sel, sel') =>
                (Range(df) \subseteq Range(df') /\ Len(df) <= Len(df'))
          /\ Within(sel', sel) =>
                (Range(df') \subseteq Range(df) /\ Len(df') <= Len(df))]_vars

\* C6's case: an allow-list has been narrowed and widened again to a value
\* that keeps a row and drops another.
C6_Witness ==
    /\ Filtered
    /\ sel.regions # Options(df_raw).regions
    /\ sel.regions # {}
    /\ df # <<>>
    /\ Len(df) < Len(df_raw.rows)

\* The total revenue of a set of rows of df_raw, nulls counting for nothing.
RECURSIVE Revenue(_)
Revenue(S) ==
    IF S = {} THEN 0
    ELSE LET i == CHOOSE i \in S : TRUE
             x == df_raw.rows[i]["revenue_usd"]
         IN  (IF x = NaN THEN 0 ELSE x.v) + Revenue(S \ {i})

\* The views that show revenue grouped by one dimension.  The two top-N
\* views show every group when there are N at most, as here.
GroupedViews ==
    {"rev_by_year", "rev_by_quarter", "rev_by_category", "top_products",
     "rev_by_5g", "rev_by_region", "top_countries", "rev_by_channel"}

\* C3, as stated: in each view of revenue grouped by year, quarter,
\* category, product name, 5G flag, region, country or sales channel, the
\* sums of the groups add up to the total revenue of the filtered set, also
\* when a record's grouping value or revenue is null.
C3_Original ==
    \A view \in GroupedViews :
        IsShown(view) =>
            LET groups == ShownValue(view)
            IN  SeqSum([g \in DOMAIN groups |-> groups[g].value])
                    = Revenue(Range(df))

\* The two pivoted heatmaps, with the columns of their row and column keys.
Heatmaps ==
    {<<"heat_year_quarter", "year", "quarter">>,
     <<"heat_region_category", "region", "category">>}

\* C4, as stated: the Year x Quarter and the Region x Category pivot hold a
\* cell for every pair of a row key and a column key present, and the cell
\* is the revenue of the records of the pair, zero when there is none.
C4_Original ==
    \A h \in Heatmaps :
        IsShown(h[1]) =>
            LET pv == ShownValue(h[1])
            IN  /\ DOMAIN pv.cell = Range(pv.index) \X Range(pv.columns)
                /\ \A rc \in DOMAIN pv.cell :
                      pv.cell[rc] =
                        Num(Revenue({i \in Range(df) :
                                        /\ df_raw.rows[i][h[2]] = rc[1]
                                        /\ df_raw.rows[i][h[3]] = rc[2]}))

\* A file has been loaded into df_raw (the run may have stopped after it).
Loaded == status \notin {"awaiting_upload", "load_error"}

\* The quarter label of a month.
QuarterOf(m) == "Q" \o ToString(((m - 1) \div 3) + 1)

MissingColumn(file) == ~(Range(Columns) \subseteq Range(file.header))

\* Some row of the file has a sale date or a number that does not parse.
Unparseable(file) ==
    \E i \in DOMAIN file.rows :
        \E c \in (NumericColumns \cup {"sale_date"}) \cap Range(file.header) :
            file.rows[i][c].t = "str"

\* C7, as stated: a file that lacks a column of the schema, or holds a date
\* or a number that does not parse, is rejected as a whole: the run ends in
\* an error raised before the filter (by the load, or by the widgets built
\* from the loaded columns), with nothing filtered or shown.
C7_Original ==
    (uploaded # NoFile /\ (MissingColumn(uploaded) \/ Unparseable(uploaded))) =>
        /\ status \in {"load_error", "sidebar_error"}
        /\ error # ""
        /\ df = <<>>
        /\ shown = <<>>

\* C8, as stated: once the file is loaded and filtered, every view of the
\* selected page that does not fail itself is on the screen, whatever
\* happened to the views before it.
C8_Original ==
    status \in {"rendered", "view_error"} =>
        \A n \in DOMAIN PageViews(page) :
            ViewError(PageViews(page)[n], df_raw) = ""
                => IsShown(PageViews(page)[n])

\* The views ranked by revenue: the view, its grouping column, whether the
\* order is ascending, and its N (none is more than the rows of a file).
RankedViews ==
    {<<"rev_by_category", "category", TRUE, MaxRows>>,
     <<"top_products", "product_name", FALSE, TopProducts>>,
     <<"rev_by_region", "region", TRUE, MaxRows>>,
     <<"top_countries", "country", FALSE, TopCountries>>,
     <<"rev_by_channel", "sales_channel", TRUE, MaxRows>>}

\* The position in the filtered records of the first one with this key.
FirstRow(c, key) ==
    CHOOSE j \in DOMAIN df :
        /\ df_raw.rows[df[j]][c] = key
        /\ \A k \in DOMAIN df : df_raw.rows[df[k]][c] = key => j <= k

Min(a, b) == IF a < b THEN a ELSE b

\* The entries of v come by value, in the direction asked for.
OrderedByValue(v, ascending) ==
    \A j, k \in DOMAIN v :
        j < k => IF ascending THEN v[j].value <= v[k].value
                 ELSE v[j].value >= v[k].value

\* Entries of equal value come in the order of the first appearance of
\* their keys in the filtered records.
TiesByFirstAppearance(v, c) ==
    \A j, k \in DOMAIN v :
        (j < k /\ v[j].value = v[k].value)
            => FirstRow(c, v[j].key[1]) < FirstRow(c, v[k].key[1])

\* v holds the revenue of min(n, number of groups) distinct groups of the
\* filtered records by column c, and cutting v further gives prefixes.
TopOfGroups(v, c, n) ==
    LET keys == {df_raw.rows[i][c] : i \in Range(df)} \ {NA}
    IN  /\ Len(v) = Min(n, Cardinality(keys))
        /\ \A j, k \in DOMAIN v : v[j].key = v[k].key => j = k
        /\ \A j \in DOMAIN v :
              /\ v[j].key[1] \in keys
              /\ v[j].value =
                    Revenue({i \in Range(df) : df_raw.rows[i][c] = v[j].key[1]})
        /\ \A m \in 0..(MaxRows + 1) :
              /\ Len(head(v, m)) = Min(m, Len(v))
              /\ \A l \in 0..m :
                    head(v, l) = SubSeq(head(v, m), 1, Len(head(v, l)))

Complete(i) == \A c \in NumericColumns : df_raw.rows[i][c] # NaN

\* C10: every entry of the correlation matrix is computed over the same
\* rows, the filtered records with none of the six numeric columns null; a
\* record with a null in any of them enters no entry.
C10_ListwiseDeletion ==
    IsShown("corr") =>
        LET m == ShownValue("corr")
        IN  /\ DOMAIN m = NumericColumns \X NumericColumns
            /\ \A p \in DOMAIN m : m[p] = SelectSeq(df, Complete)

\* C10's case: the matrix is shown for a complete record and a record
\* that lacks just one of the six columns.
C10_Witness ==
    /\ IsShown("corr")
    /\ \E i \in Range(df) : Complete(i)
    /\ \E i \in Range(df) :
          Cardinality({c \in NumericColumns : df_raw.rows[i][c] = NaN}) = 1

\* The number of filtered records with a null in column c.
Missing(c) == Cardinality({j \in DOMAIN df : isnull(c, df_raw.rows[df[j]][c])})

\* C11: the missing-value report of a filtered set holds exactly the columns
\* with a null in the filtered set, each with the number of its nulls and
\* that number as a percentage (to the nearest hundredth) of the filtered
\* rows; the success message is shown exactly when the report is empty.
C11_MissingReport ==
    IsShown("missing") =>
        LET v == ShownValue("missing")
        IN  /\ df # <<>>
            /\ DOMAIN v.miss = {c \in Range(df_raw.columns) : Missing(c) > 0}
            /\ \A c \in DOMAIN v.miss :
                  /\ v.miss[c].missing = Missing(c)
                  /\ 2 * (v.miss[c].pct * Len(df) - Missing(c) * 10000) <= Len(df)
                  /\ 2 * (Missing(c) * 10000 - v.miss[c].pct * Len(df)) <= Len(df)
            /\ v.success = (DOMAIN v.miss = {})

\* C11's case: the filter has dropped a record, and a column is null in
\* every record it kept: the report gives it 100 percent.
C11_Witness ==
    /\ IsShown("missing")
    /\ Len(df) < Len(df_raw.rows)
    /\ \E c \in DOMAIN ShownValue("missing").miss :
          /\ ShownValue("missing").miss[c].missing = Len(df)
          /\ ShownValue("missing").miss[c].pct = 10000

\* The total of numeric column c over a set of rows of df_raw with a value.
RECURSIVE ColumnTotal(_, _)
ColumnTotal(S, c) ==
    IF S = {} THEN 0
    ELSE LET i == CHOOSE i \in S : TRUE
         IN  df_raw.rows[i][c].v + ColumnTotal(S \ {i}, c)

\* The views of a grouped mean, with the grouping and the averaged column.
MeanViews ==
    {<<"avg_rating_by_category", "category", "customer_rating">>,
     <<"aov_by_channel", "sales_channel", "revenue_usd">>}

\* The filtered records of group key of column c with a value in column x.
Valued(c, key, x) ==
    {i \in Range(df) : df_raw.rows[i][c] = key /\ df_raw.rows[i][x] # NaN}

\* C12: in the average rating by category and the average order value by
\* channel, every group of the filtered records is shown once, its mean is
\* the sum of its non-null values over their number, and the mean of a group
\* with no non-null value is undefined (NaN), never a number.
C12_GroupedMeans ==
    \A mv \in MeanViews :
        IsShown(mv[1]) =>
            LET v == ShownValue(mv[1])
            IN  /\ {v[j].key[1] : j \in DOMAIN v}
                      = {df_raw.rows[i][mv[2]] : i \in Range(df)} \ {NA}
                /\ \A j, k \in DOMAIN v : v[j].key = v[k].key => j = k
                /\ \A j \in DOMAIN v :
                      LET rows == Valued(mv[2], v[j].key[1], mv[3])
                      IN  IF rows = {} THEN v[j].value = NaN
                          ELSE v[j].value =
                                 [t |-> "mean",
                                  sum |-> ColumnTotal(rows, mv[3]),
                                  n |-> Cardinality(rows)]

\* C12's case: a category with a rated and an unrated record, whose mean is
\* taken over the rated one alone.
C12_Witness ==
    /\ IsShown("avg_rating_by_category")
    /\ \E j \in DOMAIN ShownValue("avg_rating_by_category") :
          LET g == ShownValue("avg_rating_by_category")[j]
          IN  /\ g.value # NaN
              /\ g.value.n >= 1
              /\ g.value.n < Cardinality({i \in Range(df) :
                                    df_raw.rows[i]["category"] = g.key[1]})

\* The filtered set, as a frame of its own.
FilteredFrame ==
    [columns |-> df_raw.columns,
     rows |-> [j \in DOMAIN df |-> df_raw.rows[df[j]]]]

\* Loading the text gives the filtered set back.
Reloads(csv) ==
    /\ LoadError(ParseCsv(csv)) = ""
    /\ Load(ParseCsv(csv)) = FilteredFrame

====
